---- MODULE Spec2Model ----
(***************************************************************************)
(* scripts/2d_data_generation.py: the scene catalog, the two procedurally  *)
(* generated obstacle fields, and main(), which seeds the random streams,  *)
(* resolves obstacles and link length, constructs the robot and hands the  *)
(* generation request to generate_data_planar_manipulators.                *)
(*                                                                         *)
(* Numbers.  Every length and coordinate is kept in hundredths, so 3.5 is  *)
(* 350, 0.3 is 30 and the size (1, 1) is <<100, 100>>.  Class tags, DOF,   *)
(* counts and seeds are plain integers.                                    *)
(*                                                                         *)
(* Python tuples and lists are TLA+ tuples: ('circle', (0, 4.5), 1) is     *)
(* <<"circle", <<0, 450>>, 100>>.                                          *)
(*                                                                         *)
(* The numpy stream.  np.random is modelled as a deterministic generator:   *)
(* seeding sets the state to a function of the seed alone, every draw      *)
(* advances the state and returns k/Modulus, a value of [0, 1), with k a   *)
(* function of the state.  Seeds are non-negative, as np.random.seed       *)
(* requires.                                                               *)
(***************************************************************************)
EXTENDS Integers, Sequences, FiniteSets, TLC

VARIABLES
    \* main's parameters, lines 55-62
    env_name, folder, label_type, num_class, dof, num_init_points,
    random_seed, width,
    \* main's locals, lines 67-100
    obstacles, link_length, robot,
    \* where main stands, who called it ("cli", "direct"), how it failed
    pc, via, err,
    \* the process-wide streams of numpy and torch
    npState, torchState,
    \* what the collaborators were called with, and the order of the steps
    robotCalls, genCalls, events,
    \* the numpy stream when main was entered, the values drawn by this run
    entryState, draws,
    \* per procedural scene and seed, the first field an earlier run built
    fields, runs

params == <<env_name, folder, label_type, num_class, dof, num_init_points,
            random_seed, width>>

vars == <<params, obstacles, link_length, robot, pc, via, err, npState,
          torchState, robotCalls, genCalls, events, entryState, draws,
          fields, runs>>

-----------------------------------------------------------------------------
(* Bounds of the model *)

\* seeds a caller passes: 0 .. MaxSeed
MaxSeed == 1
\* states the process-wide numpy stream may be in before main is entered
MaxPrior == 1
\* number of distinct values a draw from the modelled stream can return
Modulus == 64
\* calls of main in one process (SpecRepeat)
MaxRuns == 2

\* range(150), lines 70, 78 and 88
NumObstacles == 150

-----------------------------------------------------------------------------
(* The scene catalog, lines 10-51 *)

predefined_obstacles ==
    ("1rect_1circle" :> << <<"rect", <<400, 300>>, <<200, 200>> >>,
                           <<"circle", <<-400, -300>>, 100>> >>)
 @@ ("3circle" :> << <<"circle", <<0, 450>>, 100>>,
                     <<"circle", <<-200, -300>>, 200>>,
                     <<"circle", <<-200, 200>>, 150>> >>)
 @@ ("1rect_1circle_7d" :> << <<"circle", <<-200, 300>>, 100>>,
                              <<"rect", <<300, 200>>, <<200, 200>> >> >>)
 @@ ("2class_1" :> << <<"rect", <<500, 0>>, <<200, 200>>, 0>>,
                      <<"circle", <<-300, 600>>, 100, 1>>,
                      <<"rect", <<-500, 200>>, <<200, 150>>, 1>>,
                      <<"circle", <<-500, -200>>, 150, 1>>,
                      <<"circle", <<-300, -600>>, 100, 1>> >>)
 @@ ("2class_2" :> << <<"rect", <<0, 300>>, <<1600, 50>>, 1>>,
                      <<"rect", <<0, -300>>, <<1600, 50>>, 0>> >>)
 @@ ("3circle_7d" :> << <<"circle", <<-200, 200>>, 100>>,
                        <<"circle", <<-300, 300>>, 100>>,
                        <<"circle", <<-600, -300>>, 100>> >>)

\* lengths = {2: 3.5, 3: 2, 7: 1}, line 97
\* (faulty variant: the lengths of DOF 2 and 3 exchanged)
lengthsSwapped == (2 :> 200) @@ (3 :> 350) @@ (7 :> 100)
\* (as written)
lengths == (2 :> 350) @@ (3 :> 200) @@ (7 :> 100)

\* env_choices of the argument parser, lines 109-110
\* (faulty variant: a choice the catalog has only as a comment, line 49)
env_choicesExtra ==
    {"1rect_1circle", "3circle", "1rect_1circle_7d", "2class_1", "2class_2",
     "3circle_7d", "7d_narrow", "3d_halfnarrow", "2instance_big"}
\* (as written)
env_choices ==
    {"1rect_1circle", "3circle", "1rect_1circle_7d", "2class_1", "2class_2",
     "3circle_7d", "7d_narrow", "3d_halfnarrow"}

\* choices of -d/--dof, line 115
dof_choices == {2, 3, 7}

\* choices of -l/--label-type, line 113
label_choices == {"instance", "class", "binary"}

-----------------------------------------------------------------------------
(* The numpy stream, lines 64, 71, 79, 89 *)

\* A stream state is <<key, ctr>>: the key the stream was seeded with and
\* the number of values drawn since.
Key(s) == s[1]
Ctr(s) == s[2]

\* np.random.seed(random_seed): the state becomes a function of the seed
SeedState(seed) == <<seed, 0>>

\* line 64 as main performs it on the process-wide stream in state s
\* (faulty variant: numpy is not seeded)
SeedNumpyKeep(s, seed) == s
\* (as written)
SeedNumpy(s, seed) == SeedState(seed)

\* the value the stream in state s returns next is Value(s) / Modulus
Value(s) ==
    (31 * Key(s) + 37 * Ctr(s) + 11 * (Ctr(s) \div 64) + 5 * (Ctr(s) \div 7))
        % Modulus

\* the state after j more draws
Advance(s, j) == <<Key(s), Ctr(s) + j>>

\* u * (ub - lb) + lb for one coordinate, u = k / Modulus
\* (faulty variant: u * ub + lb)
ScaleNoOffset(k, lb, ub) == lb + (ub * k) \div Modulus
\* (as written)
Scale(k, lb, ub) == lb + ((ub - lb) * k) \div Modulus

\* pos = np.random.rand(2,) * (ub - lb) + lb; pos.tolist()
\* two draws, the first for x and the second for y
DrawPos(s, lb, ub) ==
    <<Scale(Value(s), lb[1], ub[1]), Scale(Value(Advance(s, 1)), lb[2], ub[2])>>

\* for i in range(n): obstacles.append(('rect', pos, (1, 1)))
\* appended to obs, from stream state s: iteration i draws the values
\* 2i-1 and 2i after s.  The result is <<obstacles, stream state>>.
RandomField(obs, s, lb, ub, n) ==
    << obs \o [i \in 1..n |->
                  <<"rect", DrawPos(Advance(s, 2 * (i - 1)), lb, ub),
                    <<100, 100>> >>],
       Advance(s, 2 * n) >>

\* What resolving a scene yields: <<err, obstacles, link_length, stream>>
ErrOf(r) == r[1]
ObstaclesOf(r) == r[2]
LengthOf(r) == r[3]
StateOf(r) == r[4]

\* lines 67-83: the upper field, then the lower field, link_length = 1
\* (faulty variant: the lower field first)
Narrow7dLowerFirst(s) ==
    LET lower == RandomField(<< >>, s, <<-800, -800>>, <<800, -100>>,
                             NumObstacles)
        upper == RandomField(lower[1], lower[2], <<-800, 100>>,
                             <<800, 800>>, NumObstacles)
    IN  <<"none", upper[1], 100, upper[2]>>
\* (as written)
Narrow7d(s) ==
    LET upper == RandomField(<< >>, s, <<-800, 100>>, <<800, 800>>,
                             NumObstacles)
        lower == RandomField(upper[1], upper[2], <<-800, -800>>,
                             <<800, -100>>, NumObstacles)
    IN  <<"none", lower[1], 100, lower[2]>>

\* lines 85-94: the upper field only, link_length = 2.5
\* (faulty variant: the lower field too)
HalfNarrow3dBoth(s) ==
    LET both == Narrow7d(s)
    IN  <<"none", ObstaclesOf(both), 250, StateOf(both)>>
\* (as written)
HalfNarrow3d(s) ==
    LET upper == RandomField(<< >>, s, <<-800, 100>>, <<800, 800>>,
                             NumObstacles)
    IN  <<"none", upper[1], 250, upper[2]>>

-----------------------------------------------------------------------------
(* Catalog scenes, lines 95-98 *)

\* a local that was never assigned
Unbound == -1

\* q back to front
Reverse(q) == [i \in 1..Len(q) |-> q[Len(q) + 1 - i]]

\* A lookup yields <<err, value>>.
\* predefined_obstacles[env_name], line 96: a KeyError for an absent key
\* (faulty variant: the sequence reversed)
CatalogLookupReversed(env) ==
    IF env \in DOMAIN predefined_obstacles
    THEN <<"none", Reverse(predefined_obstacles[env])>>
    ELSE <<"KeyError:predefined_obstacles", << >> >>
\* (as written)
CatalogLookup(env) ==
    IF env \in DOMAIN predefined_obstacles
    THEN <<"none", predefined_obstacles[env]>>
    ELSE <<"KeyError:predefined_obstacles", << >> >>

\* lengths[dof], line 98: a KeyError for an absent key
\* (faulty variant: lengths.get(dof, 1))
LengthLookupDefault(d) ==
    IF d \in DOMAIN lengths
    THEN <<"none", lengths[d]>>
    ELSE <<"none", 100>>
\* (as written)
LengthLookup(d) ==
    IF d \in DOMAIN lengths
    THEN <<"none", lengths[d]>>
    ELSE <<"KeyError:lengths", Unbound>>

\* the else branch: line 96, then lines 97-98; no draw from the stream
\* (faulty variant: the length lookup before the scene lookup)
ResolveCatalogDofFirst(env, d, s) ==
    LET o == CatalogLookup(env)
        l == LengthLookup(d)
    IN  IF l[1] # "none" THEN <<l[1], << >>, Unbound, s>>
        ELSE IF o[1] # "none" THEN <<o[1], << >>, Unbound, s>>
        ELSE <<"none", o[2], l[2], s>>
\* (as written)
ResolveCatalog(env, d, s) ==
    LET o == CatalogLookup(env)
        l == LengthLookup(d)
    IN  IF o[1] # "none" THEN <<o[1], << >>, Unbound, s>>
        ELSE <<l[1], o[2], l[2], s>>

\* the dispatch on env_name, lines 66, 84, 95
ResolveScene(env, d, s) ==
    IF env = "7d_narrow" THEN Narrow7d(s)
    ELSE IF env = "3d_halfnarrow" THEN HalfNarrow3d(s)
    ELSE ResolveCatalog(env, d, s)

\* RevolutePlanarRobot(link_length, width, dof), line 100
RobotArgs(len, w, d) == <<len, w, d>>

\* generate_data_planar_manipulators(robot, folder, obstacles,
\* label_type=, num_class=, num_points=, env_id=, vis=True), lines 102-103,
\* as <<robot, folder, obstacles, label_type, num_class, num_points, env_id,
\* vis>>
\* (faulty variant: vis=False)
GenerateArgsNoVis(r, obs) ==
    <<r, folder, obs, label_type, num_class, num_init_points, env_name, FALSE>>
\* (as written)
GenerateArgs(r, obs) ==
    <<r, folder, obs, label_type, num_class, num_init_points, env_name, TRUE>>

-----------------------------------------------------------------------------
(* Arguments *)

Seeds == 0..MaxSeed
Procedural == {"7d_narrow", "3d_halfnarrow"}
\* scene identifiers a direct caller may pass: the parser's and one unknown
Envs == env_choices \cup {"nonexistent"}
\* DOF a direct caller may pass: the parser's and one outside the table
Dofs == dof_choices \cup {5}
Folders == {"data/landscape", "out"}
\* <<num_class, num_init_points, width>>: the defaults and another choice
Numbers == {<<2, 8000, 30>>, <<3, 100, 50>>}

\* a stream some earlier code of the process seeded with p and drew once from
PriorState(p) == <<p, 1>>

\* an entry of fields: <<set, obstacles, stream state at entry>>
NoField == <<FALSE, << >>, PriorState(0)>>

-----------------------------------------------------------------------------
(* main, lines 54-104, and its callers *)

\* before main is entered; the parameters stand at the signature's defaults
Init ==
    /\ env_name = "3d_halfnarrow"
    /\ folder = "data/landscape"
    /\ label_type = "binary"
    /\ num_class = 2
    /\ dof = 3
    /\ num_init_points = 8000
    /\ random_seed = 2021
    /\ width = 30
    /\ obstacles = << >>
    /\ link_length = Unbound
    /\ robot = << >>
    /\ pc = "idle"
    /\ via = "none"
    /\ err = "none"
    /\ npState \in {PriorState(p) : p \in 0..MaxPrior}
    /\ torchState = -1
    /\ robotCalls = << >>
    /\ genCalls = << >>
    /\ events = << >>
    /\ entryState = PriorState(0)
    /\ draws = 0
    /\ fields = [k \in Procedural \X Seeds |-> NoField]
    /\ runs = 0

\* main is entered with these arguments
Enter(e, f, l, n, d, i, r, w, how) ==
    /\ pc = "idle"
    /\ pc' = "entered"
    /\ via' = how
    /\ env_name' = e
    /\ folder' = f
    /\ label_type' = l
    /\ num_class' = n
    /\ dof' = d
    /\ num_init_points' = i
    /\ random_seed' = r
    /\ width' = w
    /\ entryState' = npState
    /\ obstacles' = << >>
    /\ link_length' = Unbound
    /\ robot' = << >>
    /\ robotCalls' = << >>
    /\ genCalls' = << >>
    /\ err' = "none"
    /\ events' = << >>
    /\ draws' = 0
    /\ runs' = runs + 1
    /\ UNCHANGED <<npState, torchState, fields>>

\* the script, lines 106-120: the parser admits only its choices
CallCLI ==
    \E e \in env_choices, f \in Folders, l \in label_choices,
       d \in dof_choices, m \in Numbers, r \in Seeds :
        Enter(e, f, l, m[1], d, m[2], r, m[3], "cli")

\* main called from other code with arguments of its choice
CallDirect ==
    \E e \in Envs, f \in Folders, l \in label_choices,
       d \in Dofs, m \in Numbers, r \in Seeds :
        Enter(e, f, l, m[1], d, m[2], r, m[3], "direct")

\* main(env_name=e, dof=d, random_seed=r), the rest left to the defaults
CallDefaults ==
    /\ runs < MaxRuns
    /\ \E e \in Envs, d \in Dofs, r \in Seeds :
        Enter(e, "data/landscape", "binary", 2, d, 8000, r, 30, "direct")

\* lines 63-64
Seed ==
    /\ pc = "entered"
    /\ torchState' = random_seed
    /\ npState' = SeedNumpy(npState, random_seed)
    /\ events' = Append(events, "seed")
    /\ pc' = "seeded"
    /\ UNCHANGED <<params, via, entryState, obstacles, link_length, robot,
                   robotCalls, genCalls, err, draws, fields, runs>>

\* lines 66-98
Resolve ==
    /\ pc = "seeded"
    /\ LET r == ResolveScene(env_name, dof, npState)
       IN  /\ obstacles' = ObstaclesOf(r)
           /\ link_length' = LengthOf(r)
           /\ npState' = StateOf(r)
           /\ draws' = Ctr(StateOf(r)) - Ctr(npState)
           /\ err' = ErrOf(r)
           /\ pc' = IF ErrOf(r) = "none" THEN "resolved" ELSE "failed"
    /\ events' = Append(events, "resolve")
    /\ UNCHANGED <<params, via, torchState, entryState, robot, robotCalls,
                   genCalls, fields, runs>>

\* line 100; a failure inside the constructor is not caught
ConstructRobot ==
    /\ pc = "resolved"
    /\ robotCalls' = Append(robotCalls, RobotArgs(link_length, width, dof))
    /\ events' = Append(events, "robot")
    /\ \/ /\ robot' = RobotArgs(link_length, width, dof)
          /\ pc' = "constructed"
          /\ err' = err
       \/ /\ robot' = robot
          /\ pc' = "failed"
          /\ err' = "external"
    /\ UNCHANGED <<params, via, npState, torchState, entryState, obstacles,
                   link_length, genCalls, draws, fields, runs>>

\* lines 102-104; a failure inside the generator is not caught
Generate ==
    /\ pc = "constructed"
    /\ genCalls' = Append(genCalls, GenerateArgs(robot, obstacles))
    /\ events' = Append(events, "generate")
    /\ \/ /\ pc' = "done"
          /\ err' = err
       \/ /\ pc' = "failed"
          /\ err' = "external"
    /\ UNCHANGED <<params, via, npState, torchState, entryState, obstacles,
                   link_length, robot, robotCalls, draws, fields, runs>>

\* main has returned or raised and the process goes on; fields keeps the
\* first obstacle field built for each procedural scene and seed
Return ==
    /\ pc \in {"done", "failed"}
    /\ pc' = "idle"
    /\ LET k == <<env_name, random_seed>>
       IN  fields' = IF k \in DOMAIN fields /\ ~fields[k][1]
                     THEN [fields EXCEPT ![k] =
                              <<TRUE, obstacles, entryState>>]
                     ELSE fields
    /\ UNCHANGED <<params, via, npState, torchState, entryState, obstacles,
                   link_length, robot, robotCalls, genCalls, err, events,
                   draws, runs>>

\* one run of main, from the script or from a direct caller
Next == CallCLI \/ CallDirect \/ Seed \/ Resolve \/ ConstructRobot \/ Generate

Spec == Init /\ [][Next]_vars

\* one process calling main up to MaxRuns times
NextRepeat ==
    CallDefaults \/ Seed \/ Resolve \/ ConstructRobot \/ Generate \/ Return

SpecRepeat == Init /\ [][NextRepeat]_vars

-----------------------------------------------------------------------------
(* Properties *)

\* the six fixed scene identifiers
FixedScenes == {"1rect_1circle", "3circle", "1rect_1circle_7d", "2class_1",
                "2class_2", "3circle_7d"}

\* lines 66-98 have run in the current call of main
Resolved == Len(events) >= 2

\* lines 66-98 have run and raised a KeyError
KeyErrors == {"KeyError:predefined_obstacles", "KeyError:lengths"}

\* the obstacle argument of a call of the generator
ObstacleArg(call) == call[3]

InRange(v, lo, hi) == lo <= v /\ v <= hi

\* C1: for a fixed scene and a DOF of {2, 3, 7}, the obstacle list handed to
\* the generator is the catalog's sequence for that scene, same descriptors
\* in the same order; "3circle" gives circles at (0, 4.5), (-2, -3), (-2, 2)
\* with radii 1, 2, 1.5.
C1_CatalogHandedOver ==
    \A i \in 1..Len(genCalls) :
        env_name \in FixedScenes =>
            /\ dof \in {2, 3, 7}
            /\ ObstacleArg(genCalls[i]) = predefined_obstacles[env_name]
            /\ env_name = "3circle" =>
                 ObstacleArg(genCalls[i]) =
                     << <<"circle", <<0, 450>>, 100>>,
                        <<"circle", <<-200, -300>>, 200>>,
                        <<"circle", <<-200, 200>>, 150>> >>
            /\ env_name = "1rect_1circle" =>
                 ObstacleArg(genCalls[i]) =
                     << <<"rect", <<400, 300>>, <<200, 200>> >>,
                        <<"circle", <<-400, -300>>, 100>> >>
            /\ env_name = "1rect_1circle_7d" =>
                 ObstacleArg(genCalls[i]) =
                     << <<"circle", <<-200, 300>>, 100>>,
                        <<"rect", <<300, 200>>, <<200, 200>> >> >>

C1_Witness ==
    /\ pc = "done"
    /\ env_name = "3circle"
    /\ dof = 7
    /\ Len(genCalls) = 1
    /\ Len(ObstacleArg(genCalls[1])) = 3

\* C2: a run of main with env_name = '7d_narrow' builds the same obstacle
\* list as an earlier run of the process with the same random_seed built,
\* whatever state the numpy stream was in when either run was entered.
C2_SameSeedSameField ==
    LET k == <<"7d_narrow", random_seed>>
    IN  (env_name = "7d_narrow" /\ Resolved /\ fields[k][1]) =>
            obstacles = fields[k][2]

C2_Witness ==
    LET k == <<"7d_narrow", random_seed>>
    IN  /\ env_name = "7d_narrow"
        /\ pc = "resolved"
        /\ runs = 2
        /\ fields[k][1]
        /\ fields[k][3] # entryState
        /\ Len(obstacles) = 300

\* C3: for '7d_narrow' main builds exactly 300 'rect' obstacles of size
\* (1, 1); the first 150 have x in [-8, 8] and y in [1, 8], the next 150
\* x in [-8, 8] and y in [-8, -1]; no center has y in (-1, 1).
C3_NarrowField ==
    (env_name = "7d_narrow" /\ Resolved) =>
        /\ Len(obstacles) = 300
        /\ \A i \in 1..Len(obstacles) :
            /\ obstacles[i][1] = "rect"
            /\ obstacles[i][3] = <<100, 100>>
            /\ InRange(obstacles[i][2][1], -800, 800)
            /\ i <= 150 => InRange(obstacles[i][2][2], 100, 800)
            /\ i > 150 => InRange(obstacles[i][2][2], -800, -100)
            /\ ~(-100 < obstacles[i][2][2] /\ obstacles[i][2][2] < 100)

\* a field with centers next to the passage on both of its sides
C3_Witness ==
    /\ env_name = "7d_narrow"
    /\ pc = "resolved"
    /\ \E i \in 1..150 : obstacles[i][2][2] < 120
    /\ \E i \in 151..300 : obstacles[i][2][2] > -120

\* C4: for '3d_halfnarrow' main builds exactly 150 'rect' obstacles of size
\* (1, 1), every center with x in [-8, 8] and y in [1, 8].
C4_HalfField ==
    (env_name = "3d_halfnarrow" /\ Resolved) =>
        /\ Len(obstacles) = 150
        /\ \A i \in 1..Len(obstacles) :
            /\ obstacles[i][1] = "rect"
            /\ obstacles[i][3] = <<100, 100>>
            /\ InRange(obstacles[i][2][1], -800, 800)
            /\ InRange(obstacles[i][2][2], 100, 800)

C4_Witness ==
    /\ env_name = "3d_halfnarrow"
    /\ pc = "resolved"
    /\ Len(obstacles) = 150
    /\ \E i \in 1..150 : obstacles[i][2][2] < 120
    /\ \E i \in 1..150 : obstacles[i][2][2] > 780

\* C5: the robot is constructed with link length 3.5, 2, 1 for DOF 2, 3, 7
\* on a catalog scene whichever the scene, 1 for '7d_narrow' and 2.5 for
\* '3d_halfnarrow' whichever the DOF, and with the caller's width and DOF.
C5_LinkLength ==
    \A i \in 1..Len(robotCalls) :
        robotCalls[i] =
            << CASE env_name = "7d_narrow" -> 100
                 [] env_name = "3d_halfnarrow" -> 250
                 [] dof = 2 -> 350
                 [] dof = 3 -> 200
                 [] dof = 7 -> 100
                 [] OTHER -> Unbound,
               width, dof >>

C5_Witness ==
    /\ env_name = "2class_1"
    /\ dof = 2
    /\ robotCalls = << <<350, 50, 2>> >>

\* C6: a fixed scene with a DOF outside {2, 3, 7} fails at the lookup in the
\* DOF-to-length table, and main lets the failure out.
C6_UnsupportedDof ==
    (env_name \in FixedScenes /\ dof \notin {2, 3, 7} /\ Resolved) =>
        /\ pc = "failed"
        /\ err = "KeyError:lengths"
        /\ robotCalls = << >>
        /\ genCalls = << >>

C6_Witness ==
    /\ env_name = "2class_2"
    /\ dof = 5
    /\ pc = "failed"
    /\ err = "KeyError:lengths"

\* C7: a scene identifier that is neither a fixed scene nor '7d_narrow' or
\* '3d_halfnarrow' fails at the scene lookup for every DOF, an unsupported
\* DOF included: the scene lookup comes first.
C7_UnknownScene ==
    (env_name \notin FixedScenes \cup {"7d_narrow", "3d_halfnarrow"}
        /\ Resolved) =>
        /\ pc = "failed"
        /\ err = "KeyError:predefined_obstacles"

C7_Witness ==
    /\ env_name = "nonexistent"
    /\ dof = 5
    /\ pc = "failed"
    /\ err = "KeyError:predefined_obstacles"

\* C8: the steps of a run come in the order seed, resolve, robot, generate.
\* A run that returns has called the robot constructor and the generator
\* once each, the generator with the resolved obstacles, the caller's
\* folder, label type, class count, point count and scene identifier, and
\* vis = True.  A run that fails at a lookup has called neither, with both
\* streams already seeded.
C8_Order ==
    /\ Len(events) <= 4
    /\ events = SubSeq(<<"seed", "resolve", "robot", "generate">>, 1,
                       Len(events))
    /\ Len(robotCalls) = (IF Len(events) >= 3 THEN 1 ELSE 0)
    /\ Len(genCalls) = (IF Len(events) >= 4 THEN 1 ELSE 0)
    /\ pc = "done" =>
        /\ Len(events) = 4
        /\ robotCalls = << <<link_length, width, dof>> >>
        /\ genCalls = << <<robot, folder, obstacles, label_type, num_class,
                           num_init_points, env_name, TRUE>> >>
        /\ robot = robotCalls[1]
    /\ err \in KeyErrors =>
        /\ pc = "failed"
        /\ events = <<"seed", "resolve">>
        /\ robotCalls = << >>
        /\ genCalls = << >>
        /\ npState = SeedState(random_seed)
        /\ torchState = random_seed

C8_Witness ==
    /\ pc = "done"
    /\ events = <<"seed", "resolve", "robot", "generate">>
    /\ folder = "out"
    /\ label_type = "instance"
    /\ genCalls[1][2] = "out"
    /\ genCalls[1][8] = TRUE

\* C9: every combination of arguments the command line accepts names a
\* scene main resolves and a DOF of the length table, so a run started from
\* the command line never fails at a lookup.
C9_CommandLineResolves ==
    (via = "cli") =>
        /\ env_name \in DOMAIN predefined_obstacles
                            \cup {"7d_narrow", "3d_halfnarrow"}
        /\ dof \in DOMAIN lengths
        /\ err \notin KeyErrors
        /\ pc = "failed" => err = "external"

C9_Witness ==
    /\ via = "cli"
    /\ pc = "done"
    /\ env_name = "3circle_7d"
    /\ dof = 2
    /\ Len(genCalls) = 1

\* C10: for the same seed the first 150 obstacles of '7d_narrow' are the
\* 150 obstacles of '3d_halfnarrow', in order; '7d_narrow' draws twice as
\* many values from the stream.
C10_SharedUpperField ==
    /\ (env_name = "7d_narrow" /\ Resolved) =>
        /\ draws = 600
        /\ fields[<<"3d_halfnarrow", random_seed>>][1] =>
             SubSeq(obstacles, 1, 150) =
                 fields[<<"3d_halfnarrow", random_seed>>][2]
    /\ (env_name = "3d_halfnarrow" /\ Resolved) =>
        /\ draws = 300
        /\ fields[<<"7d_narrow", random_seed>>][1] =>
             obstacles = SubSeq(fields[<<"7d_narrow", random_seed>>][2],
                                1, 150)

C10_Witness ==
    /\ env_name = "7d_narrow"
    /\ pc = "resolved"
    /\ runs = 2
    /\ fields[<<"3d_halfnarrow", random_seed>>][1]
    /\ Len(fields[<<"3d_halfnarrow", random_seed>>][2]) = 150
    /\ Len(obstacles) = 300

====
